---- MODULE Spec2Model ----
(***************************************************************************)
(* war-dice: the game store (src/src/store/game.ts).  One encounter of a   *)
(* dice battle: troop counts per side, the list of rolls, the game state   *)
(* and the final winner, driven by setTroops, play and reset; and the page *)
(* (src/src/components/page.tsx) whose play button calls the store.        *)
(***************************************************************************)
EXTENDS Integers, Sequences, FiniteSets

\* ------------------------------------------------------------------ bounds

\* Largest troop count of a side when a game driven by play alone is started.
MaxTroops == 3

\* Largest troop count setTroops is given or produces when it is interleaved
\* with play and reset in any phase (values range over -1..MaxValue).
MaxValue == 1

\* Faces of the die that are rolled: 1..MaxFace.
MaxFace == 2

\* Longest list of rolls after which play is still called on an unfinished game.
MaxRolls == 2

\* --------------------------------------------------------------- constants

\* game.ts:92
MAX_DICE_ROUNDS == 3

\* utils/types: enum Sides
Attack == "attack"
Defense == "defense"
Sides == {Attack, Defense}

\* utils/types: enum GameState
Waiting == "waiting"
Rolling == "rolling"
Finished == "finished"
GameState == {Waiting, Rolling, Finished}

\* winner: Sides | null
null == "null"

\* utils/math rollDice(): the values one roll of the die can give.
rollDice == 1..MaxFace

\* the store
VARIABLES state, initialTroops, troops, rolls, winner

vars == <<state, initialTroops, troops, rolls, winner>>

\* Page: the `disabled` state of the play button, whether the timeout of the
\* last effect is still pending, and the `rounds` of the last render (the
\* effect's dependency).
VARIABLES disabled, timeout, lastRounds

page == <<disabled, timeout, lastRounds>>

\* ----------------------------------------------------------------- helpers

Max2(a, b) == IF a >= b THEN a ELSE b
Min2(a, b) == IF a <= b THEN a ELSE b

\* Math.max(0, x)
MathMax0(x) == Max2(0, x)

\* Math.min(a, b, c)
MathMin3(a, b, c) == Min2(a, Min2(b, c))

\* Array.prototype.sort((a, b) => b - a): highest first.
RECURSIVE InsertDesc(_, _)
InsertDesc(x, s) ==
  IF s = <<>> THEN <<x>>
  ELSE IF x >= Head(s) THEN <<x>> \o s
  ELSE <<Head(s)>> \o InsertDesc(x, Tail(s))

RECURSIVE SortDesc(_)
SortDesc(s) == IF s = <<>> THEN <<>> ELSE InsertDesc(Head(s), SortDesc(Tail(s)))

\* The arrays `count` calls of rollDice() can push, before sorting.
Rolled(count) == [1..count -> rollDice]

\* function initialState()
initialState ==
  [ state |-> Waiting,
    initialTroops |-> [s \in Sides |-> 0],
    troops |-> [s \in Sides |-> 4],
    rolls |-> <<>>,
    winner |-> null ]

\* Mutant of nextDiceCount: the attacker rolls a die for every troop, none
\* stays behind.
nextDiceCount_AttackRollsAll(side, t) ==
  IF t >= 3 THEN 3 ELSE IF t = 2 THEN 2 ELSE IF t = 1 THEN 1 ELSE 0

\* Mutant of nextDiceCount: the defender's dice are read from the attacker's
\* table.
nextDiceCount_DefenseLikeAttack(side, t) ==
  IF t >= 4 THEN 3 ELSE IF t = 3 THEN 2 ELSE IF t = 2 THEN 1 ELSE 0

\* nextDiceCount: (side, troops) => number
nextDiceCount(side, t) ==
  IF side = Attack
  THEN IF t >= 4 THEN 3 ELSE IF t = 3 THEN 2 ELSE IF t = 2 THEN 1 ELSE 0
  ELSE IF t >= 3 THEN 3 ELSE IF t = 2 THEN 2 ELSE IF t = 1 THEN 1 ELSE 0

\* Mutant of RoundCountOf: two attacking troops stay behind instead of one.
RoundCountOf_TwoStayBehind(t) ==
  MathMax0(MathMin3(MAX_DICE_ROUNDS, t[Defense], t[Attack] - 2))

\* Mutant of RoundCountOf: every attacking troop may be committed.
RoundCountOf_NoReserve(t) ==
  MathMax0(MathMin3(MAX_DICE_ROUNDS, t[Defense], t[Attack]))

\* nextRoundCount evaluated on a troops record
RoundCountOf(t) == MathMax0(MathMin3(MAX_DICE_ROUNDS, t[Defense], t[Attack] - 1))

\* nextRoundCount: () => number
nextRoundCount == RoundCountOf(troops)

\* getLastRoll: the last roll, or "undefined" (modelled as null) when there is none
getLastRoll == IF rolls = <<>> THEN null ELSE rolls[Len(rolls)]

\* Mutant of RoundOf: a tie goes to the attacker.
RoundOf_TieToAttack(dices, i) ==
  IF /\ i <= Len(dices[Attack])
     /\ i <= Len(dices[Defense])
     /\ dices[Attack][i] >= dices[Defense][i]
  THEN Attack
  ELSE Defense

\* rounds[i] = attack > defense ? Attack : Defense, where a read past the end
\* of an array is undefined and every comparison with undefined is false.
RoundOf(dices, i) ==
  IF /\ i <= Len(dices[Attack])
     /\ i <= Len(dices[Defense])
     /\ dices[Attack][i] > dices[Defense][i]
  THEN Attack
  ELSE Defense

\* wins[side] after the loop over the rounds
WinsOf(rounds, side) == Cardinality({i \in 1..Len(rounds) : rounds[i] = side})

\* Mutant of RollOf: equal wins give the roll to the attacker.
RollOf_EqualWinsToAttack(roundCount, dices) ==
  LET rounds == [i \in 1..roundCount |-> RoundOf(dices, i)]
      wins == [s \in Sides |-> WinsOf(rounds, s)]
  IN [ dices |-> dices,
       rounds |-> rounds,
       winner |-> IF wins[Attack] >= wins[Defense] THEN Attack ELSE Defense,
       troopsLost |-> [s \in Sides |-> roundCount - wins[s]] ]

\* Mutant of RollOf: a side loses as many troops as it won rounds.
RollOf_LostIsWon(roundCount, dices) ==
  LET rounds == [i \in 1..roundCount |-> RoundOf(dices, i)]
      wins == [s \in Sides |-> WinsOf(rounds, s)]
  IN [ dices |-> dices,
       rounds |-> rounds,
       winner |-> IF wins[Attack] > wins[Defense] THEN Attack ELSE Defense,
       troopsLost |-> [s \in Sides |-> wins[s]] ]

\* The RollDice record rollDices builds from the sorted dices.
RollOf(roundCount, dices) ==
  LET rounds == [i \in 1..roundCount |-> RoundOf(dices, i)]
      wins == [s \in Sides |-> WinsOf(rounds, s)]
  IN [ dices |-> dices,
       rounds |-> rounds,
       winner |-> IF wins[Attack] > wins[Defense] THEN Attack ELSE Defense,
       troopsLost |-> [s \in Sides |-> roundCount - wins[s]] ]

\* ----------------------------------------------------------------- actions

\* Mutant of FinishTheGame: the attacker's condition is tested first.
FinishTheGame_AttackFirst(updatedTroops, st, wn) ==
  IF updatedTroops[Attack] <= 1
  THEN [state |-> Finished, winner |-> Defense]
  ELSE IF updatedTroops[Defense] = 0
  THEN [state |-> Finished, winner |-> Attack]
  ELSE [state |-> st, winner |-> wn]

\* Mutant of FinishTheGame: the defender's win sets the state and not the winner.
FinishTheGame_NoDefenseWinner(updatedTroops, st, wn) ==
  IF updatedTroops[Defense] = 0
  THEN [state |-> Finished, winner |-> Attack]
  ELSE IF updatedTroops[Attack] <= 1
  THEN [state |-> Finished, winner |-> wn]
  ELSE [state |-> st, winner |-> wn]

\* Mutant of FinishTheGame: the game ends with the attacker down to two troops.
FinishTheGame_AttackDownToTwo(updatedTroops, st, wn) ==
  IF updatedTroops[Defense] = 0
  THEN [state |-> Finished, winner |-> Attack]
  ELSE IF updatedTroops[Attack] <= 2
  THEN [state |-> Finished, winner |-> Defense]
  ELSE [state |-> st, winner |-> wn]

\* rollDices, "Finish the game": the state and winner the store holds after the
\* check on the updated troops; st and wn are the ones it held before.
FinishTheGame(updatedTroops, st, wn) ==
  IF updatedTroops[Defense] = 0
  THEN [state |-> Finished, winner |-> Attack]
  ELSE IF updatedTroops[Attack] <= 1
  THEN [state |-> Finished, winner |-> Defense]
  ELSE [state |-> st, winner |-> wn]

\* Mutant of RollDicesWith: an exchange of no rounds records no roll.
RollDicesWith_SkipEmptyRoll(st, rl, wn, a, d) ==
  LET roundCount == nextRoundCount
      dices == [s \in Sides |-> IF s = Attack THEN SortDesc(a) ELSE SortDesc(d)]
      roll == RollOf(roundCount, dices)
      updatedTroops == [s \in Sides |-> troops[s] - roll.troopsLost[s]]
  IN /\ rolls' = IF roundCount = 0 THEN rl ELSE Append(rl, roll)
     /\ troops' = updatedTroops
     /\ state' = FinishTheGame(updatedTroops, st, wn).state
     /\ winner' = FinishTheGame(updatedTroops, st, wn).winner

\* rollDices with the pushed dice given.  st, rl and wn are the state, rolls and
\* winner the store holds when rollDices is called: play has already set them
\* to Rolling, [] and null when the game was Waiting.
RollDicesWith(st, rl, wn, a, d) ==
  LET roundCount == nextRoundCount
      dices == [s \in Sides |-> IF s = Attack THEN SortDesc(a) ELSE SortDesc(d)]
      roll == RollOf(roundCount, dices)
      updatedTroops == [s \in Sides |-> troops[s] - roll.troopsLost[s]]
  IN /\ rolls' = Append(rl, roll)
     /\ troops' = updatedTroops
     /\ state' = FinishTheGame(updatedTroops, st, wn).state
     /\ winner' = FinishTheGame(updatedTroops, st, wn).winner

\* rollDices: () => void
rollDices(st, rl, wn) ==
  \E a \in Rolled(nextDiceCount(Attack, troops[Attack])),
     d \in Rolled(nextDiceCount(Defense, troops[Defense])) :
    RollDicesWith(st, rl, wn, a, d)

\* Mutant of reset: the initial state is merged over the snapshot, not replaced.
reset_KeepsSnapshot ==
  /\ state' = initialState.state
  /\ troops' = initialState.troops
  /\ rolls' = initialState.rolls
  /\ winner' = initialState.winner
  /\ UNCHANGED initialTroops

\* reset: () => void
reset ==
  /\ state' = initialState.state
  /\ initialTroops' = initialState.initialTroops
  /\ troops' = initialState.troops
  /\ rolls' = initialState.rolls
  /\ winner' = initialState.winner

\* Mutant of PlayFinished: the game goes back to its last-used configuration.
PlayFinished_LastConfiguration ==
  /\ state = Finished
  /\ state' = Waiting
  /\ troops' = initialTroops
  /\ rolls' = <<>>
  /\ winner' = null
  /\ UNCHANGED initialTroops

\* play, state === Finished: reset and return
PlayFinished ==
  /\ state = Finished
  /\ reset

\* Mutant of PlayWaiting: the snapshot is taken after the dice are rolled.
PlayWaiting_SnapshotAfterRoll ==
  /\ state = Waiting
  /\ rollDices(Rolling, <<>>, null)
  /\ initialTroops' = troops'

\* play, state === Waiting: snapshot the troops, clear rolls and winner, roll
PlayWaiting ==
  /\ state = Waiting
  /\ initialTroops' = troops
  /\ rollDices(Rolling, <<>>, null)

\* Mutant of PlayRolling: the snapshot is taken again before every roll.
PlayRolling_SnapshotAgain ==
  /\ state = Rolling
  /\ initialTroops' = troops
  /\ rollDices(state, rolls, winner)

\* play, state === Rolling: roll
PlayRolling ==
  /\ state = Rolling
  /\ UNCHANGED initialTroops
  /\ rollDices(state, rolls, winner)

\* play: () => void
play == PlayFinished \/ PlayWaiting \/ PlayRolling

\* Mutant of setTroops: the count is clamped to a minimum of 1.
setTroops_ClampAtOne(side, value) ==
  /\ troops' = [troops EXCEPT ![side] = Max2(1, value)]
  /\ UNCHANGED <<state, initialTroops, rolls, winner>>

\* Mutant of setTroops: the value is stored without Math.max(0, ...).
setTroops_NoClamp(side, value) ==
  /\ troops' = [troops EXCEPT ![side] = value]
  /\ UNCHANGED <<state, initialTroops, rolls, winner>>

\* setTroops: (side, value) => void, value a number
setTroops(side, value) ==
  /\ troops' = [troops EXCEPT ![side] = MathMax0(value)]
  /\ UNCHANGED <<state, initialTroops, rolls, winner>>

\* setTroops: (side, value) => void, value a function of the current count;
\* the updaters are current + delta.
setTroopsBy(side, delta) == setTroops(side, troops[side] + delta)

\* -------------------------------------------------------------------- page

\* Page after it is mounted on the initial store: the first render reads
\* rounds = nextRoundCount() and its effect has run, so the button is disabled
\* and the timeout is pending.
Mounted ==
  /\ disabled = TRUE
  /\ timeout = TRUE
  /\ lastRounds = RoundCountOf(initialState.troops)

\* A render of Page followed by its effect, after the store or the `disabled`
\* state changed; d and t are the button's state and the pending timeout the
\* render starts from.  rounds is read from the store as it is now; the effect
\* has the dependency [rounds]: it runs only when rounds differs from the last
\* render's, and then clears the old timeout, disables the button and sets a
\* new timeout.
Render(d, t) ==
  LET rounds == RoundCountOf(troops') IN
    /\ lastRounds' = rounds
    /\ IF rounds # lastRounds
         THEN disabled' = TRUE /\ timeout' = TRUE
         ELSE disabled' = d /\ timeout' = t

\* onClick={play} of the play button, which takes no click while disabled.
\* Page renders again only when the `state` it selects from the store changed.
ClickPlay ==
  /\ ~disabled
  /\ state = Finished \/ Len(rolls) < MaxRolls
  /\ play
  /\ IF state' # state THEN Render(disabled, timeout) ELSE UNCHANGED page

\* onClick={reset} of the reset button, shown while state === Rolling.
ClickReset ==
  /\ state = Rolling
  /\ reset
  /\ Render(disabled, timeout)

\* The callback of setTimeout: setDisabled(false), which renders Page again
\* when the button was disabled.
TimeoutFires ==
  /\ timeout
  /\ UNCHANGED vars
  /\ IF disabled
       THEN Render(FALSE, FALSE)
       ELSE timeout' = FALSE /\ UNCHANGED <<disabled, lastRounds>>

\* ---------------------------------------------------------- specifications

\* The values and the updater steps setTroops is called with.
Values == (0 - 1)..MaxValue
Deltas == {0 - 1, 1}

Init ==
  /\ state = initialState.state
  /\ initialTroops = initialState.initialTroops
  /\ troops = initialState.troops
  /\ rolls = initialState.rolls
  /\ winner = initialState.winner
  /\ Mounted

\* The store's operations called by the side components or directly: the
\* Page subscribes to `state` alone and is not involved.
SetTroopsValue ==
  /\ \E side \in Sides, value \in Values : setTroops(side, value)
  /\ UNCHANGED page

SetTroopsUpdater ==
  /\ \E side \in Sides, delta \in Deltas :
       /\ troops[side] + delta <= MaxValue
       /\ setTroopsBy(side, delta)
  /\ UNCHANGED page

Play ==
  /\ state = Finished \/ Len(rolls) < MaxRolls
  /\ play
  /\ UNCHANGED page

Reset ==
  /\ reset
  /\ UNCHANGED page

Next == SetTroopsValue \/ SetTroopsUpdater \/ Play \/ Reset

Spec == Init /\ [][Next]_vars

\* A game driven by play alone, from any Waiting state setTroops can produce
\* with counts up to MaxTroops.
InitGame ==
  /\ state = Waiting
  /\ initialTroops = initialState.initialTroops
  /\ troops \in [Sides -> 0..MaxTroops]
  /\ rolls = <<>>
  /\ winner = null
  /\ Mounted

NextGame ==
  /\ play
  /\ UNCHANGED page

SpecGame == InitGame /\ [][NextGame]_vars

FairGame == SpecGame /\ WF_vars(play)

\* setTroops in every phase of games of one exchange: the counts are set and
\* stepped while play is called on a game that is Waiting or Finished only.
PlayOnce ==
  /\ PlayFinished \/ PlayWaiting
  /\ UNCHANGED page

NextSetTroops == SetTroopsValue \/ SetTroopsUpdater \/ PlayOnce

SpecSetTroops == Init /\ [][NextSetTroops]_vars

\* utils/math rollDice(): the die has the faces 1 to 6.
DiceSides == 6
Die == 1..DiceSides

\* The arrays `count` rolls of the six-sided die can push, one for each
\* collection of values, lowest first: the sort that follows drops the order
\* of the pushes and has to reverse this one.
RolledDie(count) ==
  {f \in [1..count -> Die] : \A i, j \in 1..count : i < j => f[i] <= f[j]}

\* The first play of a game with every outcome of the six-sided die, from the
\* default state or any Waiting state with counts up to MaxTroops.
InitFirstRoll == Init \/ InitGame

FirstRoll ==
  /\ state = Waiting
  /\ initialTroops' = troops
  /\ \E a \in RolledDie(nextDiceCount(Attack, troops[Attack])),
        d \in RolledDie(nextDiceCount(Defense, troops[Defense])) :
       RollDicesWith(Rolling, <<>>, null, a, d)
  /\ UNCHANGED page

SpecFirstRoll == InitFirstRoll /\ [][FirstRoll]_vars

\* The page in use: clicks of the play and reset buttons, the timeout of the
\* effect, and the side components setting the troop counts.
NextPage ==
  ClickPlay \/ ClickReset \/ TimeoutFires \/ SetTroopsValue \/ SetTroopsUpdater

SpecPage == Init /\ [][NextPage]_<<vars, page>>

\* ------------------------------------------------------------------ claims

\* The state initialState() returns, written out.
IsInitialState ==
  /\ state = "waiting"
  /\ initialTroops = [s \in Sides |-> 0]
  /\ troops = [s \in Sides |-> 4]
  /\ rolls = <<>>
  /\ winner = "null"

\* The two conditions that end a game.
DefenseDepleted == troops[Defense] = 0
AttackDownToOne == troops[Attack] <= 1

\* C1: after any sequence of setTroops (negative values included), play and
\* reset calls, and for every dice outcome, neither side's troop count is
\* negative.
C1_TroopsNonNegative == \A s \in Sides : troops[s] >= 0

\* C1 witness: an exchange has taken the defender's last troops, leaving 0.
C1_Witness ==
  /\ state = Finished
  /\ troops[Defense] = 0
  /\ rolls # <<>>
  /\ rolls[Len(rolls)].troopsLost[Defense] >= 1

\* C2 as stated: in every Finished state reachable by any sequence of calls a
\* termination condition holds and winner matches it.
C2_Original ==
  state = Finished =>
    /\ DefenseDepleted \/ AttackDownToOne
    /\ winner = IF DefenseDepleted THEN Attack ELSE Defense

\* C2 amended: the play call that finishes a game leaves troops[Defense] = 0 or
\* troops[Attack] <= 1, with winner Attack in the first case and Defense
\* otherwise; setTroops called afterwards, while Finished, can undo it.
C2_FinishedByPlay ==
  [][(state # Finished /\ state' = Finished) =>
       /\ DefenseDepleted' \/ AttackDownToOne'
       /\ winner' = IF DefenseDepleted' THEN Attack ELSE Defense]_vars

\* C2 witness: a game of several exchanges ended by the attacker being down to
\* one troop while the defender still has troops.
C2_Witness ==
  /\ state = Finished
  /\ winner = Defense
  /\ troops[Attack] = 1
  /\ troops[Defense] >= 1
  /\ Len(rolls) >= 2

\* C3: after every completed call the list of rolls is empty exactly when the
\* game is Waiting.
C3_RollsEmptyIffWaiting == (rolls = <<>>) <=> (state = Waiting)

\* C3 witness: a game in Rolling with two rolls recorded.
C3_Witness == state = Rolling /\ Len(rolls) = 2

\* C4: after every completed call winner is set exactly when the game is
\* Finished.
C4_WinnerIffFinished == (winner # null) <=> (state = Finished)

\* C4 witness: a finished game won by the attacker after a dice exchange.
C4_Witness ==
  /\ state = Finished
  /\ winner = Attack
  /\ rolls # <<>>
  /\ rolls[Len(rolls)].rounds # <<>>

\* C5: driven by play alone from any Waiting state, every game reaches
\* Finished, and no exchange made in Rolling leaves both troop counts unchanged.
C5_EveryGameEnds ==
  /\ (state = Waiting) ~> (state = Finished)
  /\ [][state = Rolling => troops' # troops]_vars

\* C5 witness: a game that took three exchanges or more has finished.
C5_Witness == state = Finished /\ Len(rolls) >= 3

\* C6 as stated: at the end of a game driven by play alone the two termination
\* conditions are never both true.
C6_Original == state = Finished => ~(DefenseDepleted /\ AttackDownToOne)

\* C6 amended: at the end of a game driven by play alone at least one
\* termination condition holds, and both hold exactly when the game was started
\* with troops[Defense] = 0 and troops[Attack] <= 1.
C6_ExactlyOneUnlessStartedOver ==
  state = Finished =>
    /\ DefenseDepleted \/ AttackDownToOne
    /\ (DefenseDepleted /\ AttackDownToOne)
         <=> (initialTroops[Defense] = 0 /\ initialTroops[Attack] <= 1)

\* C6 witness: a game of several exchanges ended with the defender depleted
\* and the attacker holding two troops or more.
C6_Witness ==
  /\ state = Finished
  /\ troops[Defense] = 0
  /\ troops[Attack] >= 2
  /\ Len(rolls) >= 2

\* C7: play on a Finished game resolves no exchange and leaves exactly the
\* state reset produces, whatever troop counts the game was started with.
C7_PlayFinishedResets == [][(state = Finished /\ play) => IsInitialState']_vars

\* C7 witness: a finished game that was started with troop counts other than
\* the default, on which play is about to be called.
C7_Witness ==
  /\ state = Finished
  /\ initialTroops[Attack] = 4
  /\ initialTroops[Defense] = 1
  /\ Len(rolls) = 2
  /\ ENABLED play

\* C8: reset, in any phase and from any reachable state, yields the default
\* Waiting state; nothing of the previous encounter survives.
C8_ResetYieldsInitialState == [][reset => IsInitialState']_vars

\* C8 witness: a game in Rolling with a snapshot, rolls and changed troop
\* counts to discard.
C8_Witness ==
  /\ state = Rolling
  /\ Len(rolls) = 2
  /\ initialTroops[Attack] = 4
  /\ troops[Attack] = 2

\* C9: play on a Waiting game snapshots the troop counts held before the call
\* into initialTroops, leaves exactly one roll, and leaves Rolling or Finished.
C9_PlayWaitingStarts ==
  [][(state = Waiting /\ play) =>
       /\ initialTroops' = troops
       /\ Len(rolls') = 1
       /\ state' \in {Rolling, Finished}]_vars

\* C9 witness: the first exchange of a game started at 4 against 1 has been
\* resolved, with troops lost, and the game goes on.
C9_Witness ==
  /\ state = Rolling
  /\ Len(rolls) = 1
  /\ initialTroops[Attack] = 4
  /\ initialTroops[Defense] = 1
  /\ troops # initialTroops

\* C10: each exchange records troopsLost[side] = roundCount - wins[side], with
\* 0 <= troopsLost[side] <= roundCount and the two losses adding up to
\* roundCount, and lowers troops[side] by exactly troopsLost[side].
C10_TroopsLost ==
  [][(rolls' # rolls /\ rolls' # <<>>) =>
       LET roll == rolls'[Len(rolls')]
           roundCount == Len(roll.rounds)
           won(s) == Cardinality({i \in 1..roundCount : roll.rounds[i] = s})
       IN /\ \A s \in Sides :
               /\ roll.troopsLost[s] = roundCount - won(s)
               /\ 0 <= roll.troopsLost[s]
               /\ roll.troopsLost[s] <= roundCount
               /\ troops'[s] = troops[s] - roll.troopsLost[s]
               /\ troops'[s] <= troops[s]
          /\ roll.troopsLost[Attack] + roll.troopsLost[Defense] = roundCount]_vars

\* C10 witness: an exchange of three pairs in which the attacker lost one troop
\* and the defender two.
C10_Witness ==
  /\ rolls # <<>>
  /\ Len(rolls[Len(rolls)].rounds) = 3
  /\ rolls[Len(rolls)].troopsLost[Attack] = 1
  /\ rolls[Len(rolls)].troopsLost[Defense] = 2

\* A step that resolved an exchange, and the roll it recorded.
Exchanged == rolls' # rolls /\ rolls' # <<>>
LastRoll == rolls[Len(rolls)]

\* C11: setTroops(side, v), in any phase, with a number or with a function of
\* the current count, sets troops[side] to max(0, v), resp. max(0, f(current)),
\* and leaves the other side's count, state, initialTroops, rolls and winner
\* unchanged.
C11_SetTroopsFrame ==
  [][/\ \A side \in Sides, value \in Values :
          setTroops(side, value) =>
            /\ troops'[side] = IF value < 0 THEN 0 ELSE value
            /\ \A other \in Sides \ {side} : troops'[other] = troops[other]
            /\ UNCHANGED <<state, initialTroops, rolls, winner>>
     /\ \A side \in Sides, delta \in Deltas :
          setTroopsBy(side, delta) =>
            /\ troops'[side] = IF troops[side] + delta < 0 THEN 0
                               ELSE troops[side] + delta
            /\ \A other \in Sides \ {side} : troops'[other] = troops[other]
            /\ UNCHANGED <<state, initialTroops, rolls, winner>>]_vars

\* C11 witness: setTroops has acted on a Finished game: the attacker won by
\* depleting the defender, who now holds a troop again.
C11_Witness ==
  /\ state = Finished
  /\ winner = Attack
  /\ troops[Defense] = 1
  /\ rolls # <<>>

\* C12 as stated: in every Waiting state a side holds 1 troop or more.
C12_Original == state = Waiting => \A s \in Sides : troops[s] >= 1

\* C12 amended: the starting troop counts have a minimum of 0 each: in every
\* Waiting state a side holds 0 troops or more, and 0 is reached.
C12_WaitingMinimumZero == state = Waiting => \A s \in Sides : troops[s] >= 0

\* C12 witness: a Waiting game both sides of which were set to 0 troops.
C12_Witness ==
  /\ state = Waiting
  /\ troops[Attack] = 0
  /\ troops[Defense] = 0

\* C13: the number of rounds of an exchange is
\* max(0, min(3, troops[Defense], troops[Attack] - 1)) on the counts held before
\* it; 4 against 4 gives 3, and 1 attacking 5 gives 0.
C13_RoundCount ==
  /\ [][Exchanged =>
         LET least == IF troops[Defense] <= troops[Attack] - 1
                      THEN troops[Defense] ELSE troops[Attack] - 1
             capped == IF least > 3 THEN 3 ELSE least
         IN Len(LastRoll'.rounds) = IF capped < 0 THEN 0 ELSE capped]_vars
  /\ [](RoundCountOf([s \in Sides |-> 4]) = 3)
  /\ [](RoundCountOf([s \in Sides |-> IF s = Attack THEN 1 ELSE 5]) = 0)

\* C13 witness: a game started at 3 against 3 whose first exchange had the two
\* rounds the attacker's reserve allows.
C13_Witness ==
  /\ rolls # <<>>
  /\ initialTroops[Attack] = 3
  /\ initialTroops[Defense] = 3
  /\ Len(rolls[1].rounds) = 2

\* C14: the dice a side rolls depend on its own troop count alone: the attacker
\* rolls 3 for 4 or more, 2 for 3, 1 for 2, none below; the defender 3 for 3 or
\* more, 2 for 2, 1 for 1, none below.
C14_DiceCount ==
  [][Exchanged =>
       /\ Len(LastRoll'.dices[Attack]) =
            CASE troops[Attack] >= 4 -> 3
              [] troops[Attack] = 3 -> 2
              [] troops[Attack] = 2 -> 1
              [] troops[Attack] < 2 -> 0
       /\ Len(LastRoll'.dices[Defense]) =
            CASE troops[Defense] >= 3 -> 3
              [] troops[Defense] = 2 -> 2
              [] troops[Defense] = 1 -> 1
              [] troops[Defense] < 1 -> 0]_vars

\* C14 witness: an exchange of one round in which the attacker rolled three
\* dice and the defender one.
C14_Witness ==
  /\ rolls # <<>>
  /\ Len(LastRoll.rounds) = 1
  /\ Len(LastRoll.dices[Attack]) = 3
  /\ Len(LastRoll.dices[Defense]) = 1

\* C15: each side's dice are ordered highest first and round i compares the
\* i-th die of each side; the attacker wins the round only with the strictly
\* greater die.  At 4 against 4, attacker 6 5 4 against defender 6 3 1 gives
\* the rounds to Defense, Attack, Attack and leaves 3 against 2, still Rolling.
C15_PairsCompared ==
  /\ [][Exchanged =>
         LET roll == LastRoll'
         IN /\ \A s \in Sides : \A i, j \in 1..Len(roll.dices[s]) :
                 i < j => roll.dices[s][i] >= roll.dices[s][j]
            /\ \A i \in 1..Len(roll.rounds) :
                 roll.rounds[i] = IF roll.dices[Attack][i] > roll.dices[Defense][i]
                                  THEN Attack ELSE Defense]_vars
  /\ [][(/\ Exchanged
         /\ troops = [s \in Sides |-> 4]
         /\ LastRoll'.dices[Attack] = <<6, 5, 4>>
         /\ LastRoll'.dices[Defense] = <<6, 3, 1>>) =>
           /\ LastRoll'.rounds = <<Defense, Attack, Attack>>
           /\ troops' = [s \in Sides |-> IF s = Attack THEN 3 ELSE 2]
           /\ state' = Rolling]_vars

\* C15 witness: the exchange of 6 5 4 against 6 3 1 has been resolved.
C15_Witness ==
  /\ Len(rolls) = 1
  /\ rolls[1].dices[Attack] = <<6, 5, 4>>
  /\ rolls[1].dices[Defense] = <<6, 3, 1>>

\* C16: the roll's winner is Attack exactly when the attacker won more rounds
\* than the defender, Defense on equal wins; an exchange of no rounds still
\* appends a roll, with no rounds, nothing lost and winner Defense.
C16_RollWinner ==
  /\ [][Exchanged =>
         LET roll == LastRoll'
             won(s) == Cardinality({i \in 1..Len(roll.rounds) : roll.rounds[i] = s})
         IN /\ (roll.winner = Attack) <=> (won(Attack) > won(Defense))
            /\ roll.winner \in Sides
            /\ roll.rounds = <<>> =>
                 /\ roll.winner = Defense
                 /\ \A s \in Sides : roll.troopsLost[s] = 0]_vars
  /\ [][(state # Finished /\ play) =>
         Len(rolls') = (IF state = Waiting THEN 0 ELSE Len(rolls)) + 1]_vars

\* C16 witness: a game whose only exchange had no rounds, recorded with winner
\* Defense.
C16_Witness ==
  /\ Len(rolls) = 1
  /\ rolls[1].rounds = <<>>
  /\ rolls[1].winner = Defense
  /\ state = Finished

\* C17: after an exchange the updated counts are tested in order: defender at 0
\* gives Finished and winner Attack, also with the attacker at 1 or less;
\* otherwise attacker at 1 or less gives Finished and winner Defense; otherwise
\* the game stays Rolling with no winner.
C17_FinishOrder ==
  [][Exchanged =>
       IF troops'[Defense] = 0
       THEN state' = Finished /\ winner' = Attack
       ELSE IF troops'[Attack] <= 1
       THEN state' = Finished /\ winner' = Defense
       ELSE state' = Rolling /\ winner' = null]_vars

\* C17 witness: a game finished with both conditions true and won by Attack.
C17_Witness ==
  /\ state = Finished
  /\ troops[Defense] = 0
  /\ troops[Attack] <= 1
  /\ winner = Attack

\* The troops a side lost over a list of rolls.
RECURSIVE LostIn(_, _)
LostIn(rl, s) ==
  IF rl = <<>> THEN 0 ELSE rl[1].troopsLost[s] + LostIn(Tail(rl), s)

\* C18: with setTroops called only while Waiting, in every Rolling or Finished
\* state initialTroops[side] is troops[side] plus the troops the side lost over
\* all recorded rolls.
C18_TroopConservation ==
  state # Waiting =>
    \A s \in Sides : initialTroops[s] = troops[s] + LostIn(rolls, s)

\* C18 witness: a finished game of two exchanges or more in which both sides
\* lost troops.
C18_Witness ==
  /\ state = Finished
  /\ Len(rolls) >= 2
  /\ \A s \in Sides : troops[s] < initialTroops[s]

\* C19: the round count never exceeds the dice either side rolls, so every
\* round reads a die that was rolled on both sides.
C19_RoundsWithinDice ==
  /\ \A s \in Sides : RoundCountOf(troops) <= nextDiceCount(s, troops[s])
  /\ \A k \in 1..Len(rolls) : \A s \in Sides :
       Len(rolls[k].rounds) <= Len(rolls[k].dices[s])

\* C19 witness: an exchange of one round, the attacker's only die against the
\* highest of the defender's three.
C19_Witness ==
  /\ rolls # <<>>
  /\ Len(LastRoll.rounds) = 1
  /\ Len(LastRoll.dices[Attack]) = 1
  /\ Len(LastRoll.dices[Defense]) = 3

\* C20 as stated: every click of the play button leaves the button disabled,
\* also when the call leaves nextRoundCount as it was.
C20_Original == [][ClickPlay => disabled']_<<vars, page>>

====
